---------------------------- MODULE Spec2Model ----------------------------
(***************************************************************************)
(* A model of tools/validate_paths.py: the two structural payload checks,  *)
(* the video-lecture sub-record validator, the document validator (the     *)
(* second definition of validate_document_fields, the one the name is      *)
(* bound to when validate_json_file calls it), path extraction, the exact  *)
(* path check of validate_json_file and the corpus driver main().          *)
(*                                                                         *)
(* Python strings on which the code works character by character           *)
(* (endswith, substring tests, the date pattern, path splitting, sorting)  *)
(* are sequences of one-character strings.  Dictionary keys, which the     *)
(* code only looks up, are TLA+ strings.                                   *)
(***************************************************************************)
EXTENDS Integers, Sequences, FiniteSets, TLC

VARIABLES
    pc,                     \* position of the running call or of main()
    arg,                    \* argument of the function under call
    ret,                    \* its result
    case_insensitive,       \* whether the file system folds letter case
    root_exists,            \* whether root_folder exists
    metadata_exists,        \* whether root_folder/metadata exists
    metadata_files,         \* os.listdir(metadata_dir), in listing order
    file_idx,               \* position of main's for loop in the listing
    doc_idx,                \* position of validate_json_file's document loop
    paths_to_check,         \* extract_paths_from_document's result
    path_idx,               \* position of the path loop in paths_to_check
    valid_paths,            \* the lists validate_json_file builds
    invalid_paths,
    field_errors,
    total_valid_paths,      \* main's accumulators
    total_invalid_paths,
    total_field_errors,
    all_invalid_paths,
    all_field_errors,
    referenced_paths,
    types_set,
    subtypes_set,
    models_set,
    processing_methods_set,
    validating,             \* the files announced by "Validating: ..."
    error_printed,          \* the error the process printed before ending
    unreferenced_printed,   \* the lines printed under "Unreferenced Files:"
    exit_status             \* the status the process ended with, -1 before

vars == << pc, arg, ret, case_insensitive, root_exists, metadata_exists,
           metadata_files, file_idx, doc_idx, paths_to_check, path_idx,
           valid_paths, invalid_paths, field_errors, total_valid_paths,
           total_invalid_paths, total_field_errors, all_invalid_paths,
           all_field_errors, referenced_paths, types_set, subtypes_set,
           models_set, processing_methods_set, validating, error_printed,
           unreferenced_printed, exit_status >>

env_vars == << case_insensitive, root_exists, metadata_exists, metadata_files >>

\* the locals of validate_json_file
file_vars == << doc_idx, paths_to_check, path_idx, valid_paths,
                invalid_paths, field_errors >>

\* the accumulators of main
acc_vars == << total_valid_paths, total_invalid_paths, total_field_errors,
               all_invalid_paths, all_field_errors, referenced_paths >>

summary_vars == << types_set, subtypes_set, models_set, processing_methods_set >>

main_vars == << file_idx, file_vars, acc_vars, summary_vars, validating,
                error_printed, unreferenced_printed, exit_status >>

---------------------------------------------------------------------------
(* Bounds of the model.                                                    *)

\* most elements of video_segments in a payload under check
MaxSegments == 2
\* most keys present in a document handed to validate_document_fields alone
MaxKeys == 3
\* most entries of the metadata directory
MaxFiles == 2
\* most documents in the metadata files together
MaxDocs == 2
\* most elements of the root of a page-timestamp payload under check
MaxItems == 2
\* most entries of one timestamps list of such a payload
MaxEntries == 2
\* largest index a sub-record is validated at
MaxIndex == 1

---------------------------------------------------------------------------
(* Character strings.                                                      *)

\* the characters in code point order, as sorted() and str comparison use them
CodePoints ==
    << "\n", " ", "-", ".", "/",
       "0", "1", "2", "3", "4", "5", "6", "7", "8", "9", ":",
       "A", "B", "C", "D", "E", "F", "G", "H", "I", "J", "K", "L", "M",
       "N", "O", "P", "Q", "R", "S", "T", "U", "V", "W", "X", "Y", "Z",
       "_",
       "a", "b", "c", "d", "e", "f", "g", "h", "i", "j", "k", "l", "m",
       "n", "o", "p", "q", "r", "s", "t", "u", "v", "w", "x", "y", "z" >>

\* ord(c), as a position in CodePoints
OrdTable ==
    [c \in {CodePoints[i] : i \in 1..Len(CodePoints)} |->
        CHOOSE i \in 1..Len(CodePoints) : CodePoints[i] = c]

Ord(c) == OrdTable[c]

Digits == {"0", "1", "2", "3", "4", "5", "6", "7", "8", "9"}

IsUpper(c) == Ord(c) >= Ord("A") /\ Ord(c) <= Ord("Z")

\* str.lower() on one character / on a string: what a case-folding file
\* system compares
LowerTable ==
    [c \in DOMAIN OrdTable |->
        IF IsUpper(c) THEN CodePoints[Ord(c) - Ord("A") + Ord("a")] ELSE c]

LowerChar(c) == LowerTable[c]

Lower(s) == [i \in 1..Len(s) |-> LowerChar(s[i])]

\* s.startswith(p)
StartsWith(s, p) == Len(s) >= Len(p) /\ SubSeq(s, 1, Len(p)) = p

\* s.endswith(p)
EndsWith(s, p) ==
    Len(s) >= Len(p) /\ SubSeq(s, Len(s) - Len(p) + 1, Len(s)) = p

\* p in s, for strings
Contains(s, p) ==
    \E i \in 1..(Len(s) - Len(p) + 1) : SubSeq(s, i, i + Len(p) - 1) = p

\* s < t in Python's string order
RECURSIVE StrLess(_, _)
StrLess(s, t) ==
    IF t = << >> THEN FALSE
    ELSE IF s = << >> THEN TRUE
    ELSE IF Head(s) = Head(t) THEN StrLess(Tail(s), Tail(t))
    ELSE Ord(Head(s)) < Ord(Head(t))

\* sorted(xs) for a list of strings
RECURSIVE Insert(_, _)
Insert(x, xs) ==
    IF xs = << >> THEN << x >>
    ELSE IF StrLess(Head(xs), x) THEN << Head(xs) >> \o Insert(x, Tail(xs))
    ELSE << x >> \o xs

RECURSIVE sorted(_)
sorted(xs) == IF xs = << >> THEN << >> ELSE Insert(Head(xs), sorted(Tail(xs)))

\* the elements of a sequence
Range(xs) == {xs[i] : i \in 1..Len(xs)}

\* the concatenation of a sequence of sequences
RECURSIVE Flatten(_)
Flatten(xss) == IF xss = << >> THEN << >> ELSE Head(xss) \o Flatten(Tail(xss))

---------------------------------------------------------------------------
(* JSON payloads of the auxiliary files (json.load's result).  The checks  *)
(* only test membership and types, so a value is: its type t, the values   *)
(* under its keys (a dict), its elements (a list), or the key-like tokens  *)
(* it is made of (a str: "k" in s is a substring test, and no required key *)
(* is a substring of another, so s contains k iff k is one of its tokens). *)

JDict(f) == [t |-> "dict", fields |-> f, items |-> << >>, toks |-> {}]
JArr(xs) == [t |-> "list", fields |-> << >>, items |-> xs, toks |-> {}]
JText(ks) == [t |-> "str", fields |-> << >>, items |-> << >>, toks |-> ks]
JNum == [t |-> "int", fields |-> << >>, items |-> << >>, toks |-> {}]
JNone == [t |-> "NoneType", fields |-> << >>, items |-> << >>, toks |-> {}]

\* the keys of the segmented-video-description format: of the root, and of
\* one segment
RequiredSet ==
    {"language", "general_description_en", "video_keywords_en",
     "video_keywords_fr", "video_segments"}

SegmentRequiredSet ==
    {"start_time", "end_time", "key_frame_time", "contains_math",
     "contains_diagram", "teacher_uses_pointer",
     "segment_audio_transcription_en", "segment_audio_transcription_fr",
     "extracted_text_video_frame", "short_description_video_segment_en",
     "short_description_video_segment_fr", "segment_keywords_en",
     "segment_keywords_fr"}

\* a dict with the given keys, every value a number
DictOfKeys(ks) == JDict([k \in ks |-> JNum])

\* a list of the given strings
ListOfKeys(ks) ==
    LET RECURSIVE AsSeq(_)
        AsSeq(S) == IF S = {} THEN << >>
                    ELSE LET k == CHOOSE k \in S : TRUE
                         IN  << JText({k}) >> \o AsSeq(S \ {k})
    IN  JArr(AsSeq(ks))

\* field in container: "True", "False", or "raise" (TypeError: argument of
\* this type is not iterable)
PyIn(field, container) ==
    CASE container.t = "dict" ->
            IF field \in DOMAIN container.fields THEN "True" ELSE "False"
      [] container.t = "list" ->
            IF \E i \in 1..Len(container.items) :
                   container.items[i] = JText({field})
            THEN "True" ELSE "False"
      [] container.t = "str" ->
            IF field \in container.toks THEN "True" ELSE "False"
      [] OTHER -> "raise"

\* a file as open() and json.load() see it: readable is FALSE when open()
\* raises (no such file, a directory, no permission), parses is FALSE when
\* json.load raises, json is the loaded value
File(readable, parses, json) ==
    [readable |-> readable, parses |-> parses, json |-> json]

NoFile == File(FALSE, FALSE, JNone)
NotJson == File(TRUE, FALSE, JNone)
JsonFile(v) == File(TRUE, TRUE, v)

required_fields ==
    << "language", "general_description_en", "video_keywords_en",
       "video_keywords_fr", "video_segments" >>

\* the per-segment list without its last key
segment_required_fields_short ==
    << "start_time", "end_time", "key_frame_time", "contains_math",
       "contains_diagram", "teacher_uses_pointer",
       "segment_audio_transcription_en", "segment_audio_transcription_fr",
       "extracted_text_video_frame", "short_description_video_segment_en",
       "short_description_video_segment_fr", "segment_keywords_en" >>

segment_required_fields ==
    << "start_time", "end_time", "key_frame_time", "contains_math",
       "contains_diagram", "teacher_uses_pointer",
       "segment_audio_transcription_en", "segment_audio_transcription_fr",
       "extracted_text_video_frame", "short_description_video_segment_en",
       "short_description_video_segment_fr", "segment_keywords_en",
       "segment_keywords_fr" >>

\* the first outcome other than "True" of field in container over the
\* fields in order, else "True": the loops of lines 42-44 and 66-68
RECURSIVE AllIn(_, _)
AllIn(fields, container) ==
    IF fields = << >> THEN "True"
    ELSE LET r == PyIn(Head(fields), container)
         IN  IF r = "True" THEN AllIn(Tail(fields), container) ELSE r

\* the loop over data["video_segments"], lines 50-68
RECURSIVE SegmentsOk(_)
SegmentsOk(segments) ==
    IF segments = << >> THEN "True"
    ELSE LET r == AllIn(segment_required_fields, Head(segments))
         IN  IF r = "True" THEN SegmentsOk(Tail(segments)) ELSE r

\* the try block of validate_gemini_json_structure: "True", "False" or
\* "raise"
gemini_try(file) ==
    IF ~file.readable \/ ~file.parses THEN "raise"
    ELSE LET data == file.json
             top == AllIn(required_fields, data)
         IN  IF top # "True" THEN top
             \* data["video_segments"] on a list or a str raises TypeError
             ELSE IF data.t # "dict" THEN "raise"
             ELSE IF data.fields["video_segments"].t # "list" THEN "False"
             ELSE SegmentsOk(data.fields["video_segments"].items)

\* except: return False
validate_gemini_json_structure(file) == gemini_try(file) = "True"

\* a loop over item["timestamps"] that tests nothing
TimestampsUnchecked(timestamps) == "True"

\* the loop over item["timestamps"], lines 91-98
RECURSIVE TimestampsOk(_)
TimestampsOk(timestamps) ==
    IF timestamps = << >> THEN "True"
    ELSE LET timestamp == Head(timestamps)
         IN  IF timestamp.t # "dict" THEN "False"
             ELSE IF \/ "start_timestamp" \notin DOMAIN timestamp.fields
                     \/ "end_timestamp" \notin DOMAIN timestamp.fields
                  THEN "False"
             ELSE TimestampsOk(Tail(timestamps))

\* the loop over data, lines 84-98
RECURSIVE ItemsOk(_)
ItemsOk(data) ==
    IF data = << >> THEN "True"
    ELSE LET item == Head(data)
         IN  IF item.t # "dict" THEN "False"
             ELSE IF \/ "page_number" \notin DOMAIN item.fields
                     \/ "timestamps" \notin DOMAIN item.fields
                  THEN "False"
             ELSE IF item.fields["timestamps"].t # "list" THEN "False"
             ELSE LET r == TimestampsOk(item.fields["timestamps"].items)
                  IN  IF r = "True" THEN ItemsOk(Tail(data)) ELSE r

\* the try block of validate_pdf_timestamp_json_structure
pdf_timestamp_try(file) ==
    IF ~file.readable \/ ~file.parses THEN "raise"
    ELSE IF file.json.t # "list" THEN "False"
    ELSE ItemsOk(file.json.items)

\* except: return False
validate_pdf_timestamp_json_structure(file) == pdf_timestamp_try(file) = "True"

---------------------------------------------------------------------------
(* The values of a metadata record (json.load's result for the metadata    *)
(* files).  Every value has the same shape: its Python type name t and,    *)
(* by type, a bool b, an int n, a str s (characters), a list l, a dict d.  *)

Val(t, b, n, s, l, d) == [t |-> t, b |-> b, n |-> n, s |-> s, l |-> l, d |-> d]

VNull == Val("NoneType", FALSE, 0, << >>, << >>, << >>)
VBool(b) == Val("bool", b, 0, << >>, << >>, << >>)
VInt(n) == Val("int", FALSE, n, << >>, << >>, << >>)
VStr(s) == Val("str", FALSE, 0, s, << >>, << >>)
VList(l) == Val("list", FALSE, 0, << >>, l, << >>)
VDict(d) == Val("dict", FALSE, 0, << >>, << >>, d)

\* x is not None / x is True / x is False / isinstance(x, str) /
\* isinstance(x, int): bool is a subclass of int
IsNone(x) == x.t = "NoneType"
IsTrue(x) == x.t = "bool" /\ x.b
IsFalse(x) == x.t = "bool" /\ ~x.b
IsStr(x) == x.t = "str"
IsInt(x) == x.t \in {"int", "bool"}

\* bool(x): the truth value an if statement takes of x
Truthy(x) ==
    CASE x.t = "NoneType" -> FALSE
      [] x.t = "bool" -> x.b
      [] x.t = "int" -> x.n # 0
      [] x.t = "str" -> x.s # << >>
      [] x.t = "list" -> x.l # << >>
      [] x.t = "dict" -> DOMAIN x.d # {}

\* str(n) for n >= 0
RECURSIVE Decimal(_)
Decimal(n) ==
    IF n < 10 THEN << CodePoints[Ord("0") + n] >>
    ELSE Decimal(n \div 10) \o << CodePoints[Ord("0") + (n % 10)] >>

\* str(x), for the scalar types
PyStr(x) ==
    CASE x.t = "str" -> x.s
      [] x.t = "bool" -> IF x.b THEN << "T", "r", "u", "e" >>
                         ELSE << "F", "a", "l", "s", "e" >>
      [] x.t = "int" -> Decimal(x.n)
      [] x.t = "NoneType" -> << "N", "o", "n", "e" >>

\* key in d and d[key] is not None, for a dict d
Present(d, key) == key \in DOMAIN d /\ ~IsNone(d[key])

\* d.get(key): None when the key is absent
Get(d, key) == IF key \in DOMAIN d THEN d[key] ELSE VNull

\* one entry of an error list: the tuple (field, message, doc_id).  A
\* message is its text and the value an f-string formats into it, if any.
Msg(text) == [text |-> text, got |-> VNull]
MsgGot(text, value) == [text |-> text, got |-> value]
Err(field, message, doc_id) == << field, message, doc_id >>

---------------------------------------------------------------------------
(* The content tree under root_folder.  A path is the sequence of its      *)
(* segments; Path(root) / s and str(path) convert between segments and     *)
(* strings.                                                                *)

\* pathlib's parsing of a relative path string: split at "/", dropping
\* empty and "." segments
RECURSIVE Parts(_)
Parts(s) ==
    IF s = << >> THEN << >>
    ELSE LET cut == IF \E i \in 1..Len(s) : s[i] = "/"
                    THEN CHOOSE i \in 1..Len(s) :
                            s[i] = "/" /\ \A j \in 1..(i - 1) : s[j] # "/"
                    ELSE Len(s) + 1
             seg == SubSeq(s, 1, cut - 1)
             rest == Parts(SubSeq(s, cut + 1, Len(s)))
         IN  IF seg = << >> \/ seg = << "." >> THEN rest ELSE << seg >> \o rest

\* str(path.relative_to(root_folder))
RECURSIVE PathStr(_)
PathStr(parts) ==
    IF Len(parts) = 1 THEN parts[1]
    ELSE parts[1] \o << "/" >> \o PathStr(Tail(parts))

\* full_path.parent and full_path.name
Parent(parts) == SubSeq(parts, 1, Len(parts) - 1)
Name(parts) == parts[Len(parts)]

A_pdf == << "A", ".", "p", "d", "f" >>
B_pdf == << "B", ".", "p", "d", "f" >>
a_srt == << "a", ".", "s", "r", "t" >>
seg_json == << "s", "e", "g", ".", "j", "s", "o", "n" >>
segbad_json == << "s", "e", "g", "b", "a", "d", ".", "j", "s", "o", "n" >>
ts_json == << "t", "s", ".", "j", "s", "o", "n" >>
tsbad_json == << "t", "s", "b", "a", "d", ".", "j", "s", "o", "n" >>
dot_hidden == << ".", "h", "i", "d", "d", "e", "n" >>
metadata == << "m", "e", "t", "a", "d", "a", "t", "a" >>

\* a Valid segmented-video-description payload, and one whose segment lacks
\* a key
GoodSegments ==
    JDict([k \in RequiredSet |->
              IF k = "video_segments"
              THEN JArr(<< DictOfKeys(SegmentRequiredSet) >>)
              ELSE JNum])

BadSegments ==
    JDict([k \in RequiredSet |->
              IF k = "video_segments"
              THEN JArr(<< DictOfKeys(SegmentRequiredSet \ {"end_time"}) >>)
              ELSE JNum])

\* a Valid page-timestamp payload, and one whose entry lacks end_timestamp
GoodTimestamps ==
    JArr(<< JDict([k \in {"page_number", "timestamps"} |->
                     IF k = "timestamps"
                     THEN JArr(<< DictOfKeys({"start_timestamp",
                                              "end_timestamp"}) >>)
                     ELSE JNum]) >>)

BadTimestamps ==
    JArr(<< JDict([k \in {"page_number", "timestamps"} |->
                     IF k = "timestamps"
                     THEN JArr(<< DictOfKeys({"start_timestamp"}) >>)
                     ELSE JNum]) >>)

\* the files of the content tree: c/A.pdf, c/B.pdf, c/a.srt, four JSON
\* payloads under c/, and the hidden file .hidden
Tree ==
    { [path |-> << << "c" >>, A_pdf >>, file |-> NotJson],
      [path |-> << << "c" >>, B_pdf >>, file |-> NotJson],
      [path |-> << << "c" >>, a_srt >>, file |-> NotJson],
      [path |-> << << "c" >>, seg_json >>, file |-> JsonFile(GoodSegments)],
      [path |-> << << "c" >>, segbad_json >>, file |-> JsonFile(BadSegments)],
      [path |-> << << "c" >>, ts_json >>, file |-> JsonFile(GoodTimestamps)],
      [path |-> << << "c" >>, tsbad_json >>, file |-> JsonFile(BadTimestamps)],
      [path |-> << dot_hidden >>, file |-> NotJson] }

\* a metadata file read as a payload: only its top-level type and keys
AsPayload(f) ==
    IF ~f.parses THEN NotJson
    ELSE IF f.root.t = "dict" THEN JsonFile(DictOfKeys(DOMAIN f.root.d))
    ELSE IF f.root.t = "list" THEN JsonFile(JArr(<< >>))
    ELSE JsonFile(JNum)

\* every file under root_folder: the content tree and the metadata files
Disk ==
    IF ~root_exists THEN {}
    ELSE Tree \cup { [path |-> << metadata, metadata_files[i].name >>,
                      file |-> AsPayload(metadata_files[i])] :
                        i \in 1..Len(metadata_files) }

\* whether the file system takes two names for the same entry
SameName(a, b) == IF case_insensitive THEN Lower(a) = Lower(b) ELSE a = b

SamePath(p, q) ==
    Len(p) = Len(q) /\ \A i \in 1..Len(p) : SameName(p[i], q[i])

\* the files below the directory the path names
Below(parts) ==
    {e \in Disk : /\ Len(e.path) > Len(parts)
                  /\ SamePath(SubSeq(e.path, 1, Len(parts)), parts)}

\* Path.is_file(), os.path.isdir(), Path.exists()
is_file(parts) == \E e \in Disk : SamePath(e.path, parts)

is_dir(parts) ==
    /\ root_exists
    /\ \/ parts = << >>
       \/ Below(parts) # {}
       \/ metadata_exists /\ SamePath(parts, << metadata >>)

exists(parts) == is_file(parts) \/ is_dir(parts)

\* os.listdir(parts) of an existing directory: the names as they are stored
listdir(parts) ==
    {e.path[Len(parts) + 1] : e \in Below(parts)}
        \cup (IF parts = << >> /\ metadata_exists THEN {metadata} ELSE {})

\* what open() and json.load() make of the path
ReadFile(parts) ==
    IF is_file(parts)
    THEN (CHOOSE e \in Disk : SamePath(e.path, parts)).file
    ELSE NoFile

---------------------------------------------------------------------------
(* validate_associated_video_lecture.  A result is [raised, errors]:       *)
(* raised when an exception leaves the function, else the returned list.   *)

Returned(errors) == [raised |-> FALSE, errors |-> errors]
Raised == [raised |-> TRUE, errors |-> << >>]

video_required_fields ==
    << "title", "is_gemini_processed_video", "original_link", "path",
       "srt_path", "pdf_page_video_ts_path" >>

\* prefix = f"associated_video_lectures[{index}]"
Prefix(index) == "associated_video_lectures[" \o ToString(index) \o "]"

\* lines 121-123
RECURSIVE VideoMissing(_, _, _, _)
VideoMissing(fields, video, doc_id, index) ==
    IF fields = << >> THEN << >>
    ELSE (IF Head(fields) \notin DOMAIN video
          THEN << Err(Prefix(index) \o "." \o Head(fields),
                      Msg("required field missing"), doc_id) >>
          ELSE << >>)
         \o VideoMissing(Tail(fields), video, doc_id, index)

\* lines 126-129
VideoTitle(video, doc_id, index) ==
    IF Present(video, "title") /\ Contains(PyStr(video["title"]), << "_" >>)
    THEN << Err(Prefix(index) \o ".title",
                Msg("cannot contain underscore characters"), doc_id) >>
    ELSE << >>

mediaspace == << "m", "e", "d", "i", "a", "s", "p", "a", "c", "e" >>

\* lines 132-143
VideoOriginalLink(video, doc_id, index) ==
    IF /\ Present(video, "original_link")
       /\ \/ ~IsStr(video["original_link"])
          \/ ~Contains(video["original_link"].s, mediaspace)
    THEN << Err(Prefix(index) \o ".original_link",
                Msg("must be null or contain 'mediaspace'"), doc_id) >>
    ELSE << >>

dot_srt == << ".", "s", "r", "t" >>

\* lines 146-157
VideoSrtPath(video, doc_id, index) ==
    IF ~Present(video, "srt_path") THEN << >>
    ELSE IF \/ ~IsStr(video["srt_path"])
            \/ ~EndsWith(video["srt_path"].s, dot_srt)
    THEN << Err(Prefix(index) \o ".srt_path",
                Msg("must be null or end with '.srt'"), doc_id) >>
    ELSE LET srt_full_path == Parts(video["srt_path"].s)
         IN  IF ~exists(srt_full_path) \/ ~is_file(srt_full_path)
             THEN << Err(Prefix(index) \o ".srt_path",
                         Msg("file does not exist"), doc_id) >>
             ELSE << >>

\* lines 160-172, when root_folder / value does not raise
VideoTsPath(video, doc_id, index) ==
    IF ~Present(video, "pdf_page_video_ts_path") THEN << >>
    ELSE LET ts_full_path == Parts(video["pdf_page_video_ts_path"].s)
         IN  IF ~exists(ts_full_path) \/ ~is_file(ts_full_path)
             THEN << Err(Prefix(index) \o ".pdf_page_video_ts_path",
                         Msg("file does not exist"), doc_id) >>
             ELSE IF ~validate_pdf_timestamp_json_structure(
                         ReadFile(ts_full_path))
             THEN << Err(Prefix(index) \o ".pdf_page_video_ts_path",
                         Msg("invalid JSON structure"), doc_id) >>
             ELSE << >>

\* line 164: root_folder / value raises TypeError unless value is a str
VideoRaises(video) ==
    /\ Present(video, "pdf_page_video_ts_path")
    /\ ~IsStr(video["pdf_page_video_ts_path"])

validate_associated_video_lecture(video, doc_id, index) ==
    IF VideoRaises(video) THEN Raised
    ELSE Returned(VideoMissing(video_required_fields, video, doc_id, index)
                  \o VideoTitle(video, doc_id, index)
                  \o VideoOriginalLink(video, doc_id, index)
                  \o VideoSrtPath(video, doc_id, index)
                  \o VideoTsPath(video, doc_id, index))

---------------------------------------------------------------------------
(* validate_document_fields: the second definition (lines 349-524), which  *)
(* replaces the first (lines 177-346) when the module is loaded, so that   *)
(* it is the one validate_json_file calls.                                 *)

video_lecture ==
    << "v", "i", "d", "e", "o", "_", "l", "e", "c", "t", "u", "r", "e" >>
book_in_bibliography ==
    << "b", "o", "o", "k", "_", "i", "n", "_", "b", "i", "b", "l", "i", "o",
       "g", "r", "a", "p", "h", "y" >>
dot_json == << ".", "j", "s", "o", "n" >>
coursera == << "c", "o", "u", "r", "s", "e", "r", "a" >>
courseware == << "c", "o", "u", "r", "s", "e", "w", "a", "r", "e" >>
edx == << "e", "d", "x" >>

valid_models ==
    { << "g", "e", "m", "i", "n", "i", "-", "2", ".", "5", "-", "f", "l", "a",
         "s", "h" >>,
      << "g", "e", "m", "i", "n", "i", "-", "2", ".", "5", "-", "p", "r", "o" >> }

valid_methods ==
    { << "g", "e", "m", "i", "n", "i" >>,
      << "t", "e", "s", "s", "e", "r", "a", "c", "t" >>,
      << "g", "o", "o", "g", "l", "e" >> }

\* doc_id = doc.get("id", "unknown")
DocId(doc) ==
    IF "id" \in DOMAIN doc THEN doc["id"]
    ELSE VStr(<< "u", "n", "k", "n", "o", "w", "n" >>)

\* doc.get("subtype") == name
SubtypeIs(doc, name) == IsStr(Get(doc, "subtype")) /\ Get(doc, "subtype").s = name

\* lines 360-368
DocWeek(doc) ==
    IF Present(doc, "week") /\ ~IsInt(doc["week"])
    THEN << Err("week",
                Msg("must be an integer or null, got: " \o doc["week"].t),
                DocId(doc)) >>
    ELSE << >>

\* lines 371-380, for one of "number", "sub_number"
DocString(doc, field) ==
    IF Present(doc, field) /\ ~IsStr(doc[field])
    THEN << Err(field, Msg("must be a string or null, got: " \o doc[field].t),
                DocId(doc)) >>
    ELSE << >>

\* lines 383-392
DocModel(doc) ==
    IF /\ Present(doc, "model")
       /\ ~(IsStr(doc["model"]) /\ doc["model"].s \in valid_models)
    THEN << Err("model",
                MsgGot("must be one of ['gemini-2.5-flash', 'gemini-2.5-pro'] or null, got: ",
                       doc["model"]),
                DocId(doc)) >>
    ELSE << >>

\* line 395: the condition under which the video_lecture rule applies
VideoLectureGate(doc) == SubtypeIs(doc, video_lecture)

\* lines 396-404, when doc["path"].endswith does not raise
DocVideoLecturePath(doc) ==
    IF Present(doc, "path") /\ ~EndsWith(doc["path"].s, dot_json)
    THEN << Err("path",
                Msg("must end with '.json' when subtype is 'video_lecture'"),
                DocId(doc)) >>
    ELSE << >>

\* lines 405-408
DocVideoLectureIsVideo(doc) ==
    IF "is_video" \in DOMAIN doc /\ ~IsTrue(doc["is_video"])
    THEN << Err("is_video",
                Msg("must be true when subtype is 'video_lecture'"),
                DocId(doc)) >>
    ELSE << >>

\* lines 395-408
DocVideoLecture(doc) ==
    IF VideoLectureGate(doc)
    THEN DocVideoLecturePath(doc) \o DocVideoLectureIsVideo(doc)
    ELSE << >>

\* date_pattern.match(s) for ^\d{2}/\d{2}/\d{4}$: "$" also matches before
\* a newline that ends the string
DateMatch(s) ==
    LET core == IF Len(s) = 11 /\ s[11] = "\n" THEN SubSeq(s, 1, 10) ELSE s
    IN  /\ Len(core) = 10
        /\ \A i \in {1, 2, 4, 5, 7, 8, 9, 10} : core[i] \in Digits
        /\ core[3] = "/"
        /\ core[6] = "/"

\* lines 412-425, for one of "from", "until"
DocDate(doc, field) ==
    IF ~Present(doc, field) THEN << >>
    ELSE IF ~IsStr(doc[field])
    THEN << Err(field, Msg("must be a string in format 'DD/MM/YYYY' or null"),
                DocId(doc)) >>
    ELSE IF ~DateMatch(doc[field].s)
    THEN << Err(field, MsgGot("must be in format 'DD/MM/YYYY', got: ", doc[field]),
                DocId(doc)) >>
    ELSE << >>

\* lines 428-429
DocTikz(doc) ==
    IF Present(doc, "tikz") /\ ~IsFalse(doc["tikz"])
    THEN << Err("tikz", MsgGot("must be false or null, got: ", doc["tikz"]),
                DocId(doc)) >>
    ELSE << >>

\* lines 432-434
DocTitle(doc) ==
    IF Present(doc, "title") /\ Contains(PyStr(doc["title"]), << "_" >>)
    THEN << Err("title", Msg("cannot contain underscore characters"),
                DocId(doc)) >>
    ELSE << >>

\* lines 439-446, for one of "one_chunk_per_page", "one_chunk_per_doc"
DocChunk(doc, field) ==
    IF field \in DOMAIN doc /\ ~IsFalse(doc[field])
    THEN << Err(field, Msg("must be false when subtype is 'book_in_bibliography'"),
                DocId(doc)) >>
    ELSE << >>

\* lines 437-446
DocBook(doc) ==
    IF SubtypeIs(doc, book_in_bibliography)
    THEN DocChunk(doc, "one_chunk_per_page") \o DocChunk(doc, "one_chunk_per_doc")
    ELSE << >>

\* lines 449-458
DocProcessingMethod(doc) ==
    IF /\ Present(doc, "processing_method")
       /\ ~(IsStr(doc["processing_method"])
              /\ doc["processing_method"].s \in valid_methods)
    THEN << Err("processing_method",
                MsgGot("must be one of ['gemini', 'tesseract', 'google'] or null, got: ",
                       doc["processing_method"]),
                DocId(doc)) >>
    ELSE << >>

\* lines 461-463
DocSrtPath(doc) ==
    IF /\ Present(doc, "srt_path")
       /\ (~IsStr(doc["srt_path"]) \/ ~EndsWith(doc["srt_path"].s, dot_srt))
    THEN << Err("srt_path", Msg("must be null or end with '.srt'"), DocId(doc)) >>
    ELSE << >>

\* line 466: the condition under which the original_link rule applies,
\* when doc["is_video"] does not raise
OriginalLinkGate(doc) ==
    Present(doc, "original_link") /\ Truthy(doc["is_video"])

\* lines 467-472: the link is not a str naming a known platform
OriginalLinkBad(link) ==
    \/ ~IsStr(link)
    \/ /\ ~Contains(link.s, mediaspace)
       /\ ~Contains(link.s, coursera)
       /\ ~Contains(link.s, courseware)
       /\ ~Contains(link.s, edx)

\* lines 466-479
DocOriginalLink(doc) ==
    IF OriginalLinkGate(doc) /\ OriginalLinkBad(doc["original_link"])
    THEN << Err("original_link",
                Msg("must be null or contain 'mediaspace' or a MOOC platform"),
                DocId(doc)) >>
    ELSE << >>

\* lines 483-490
DocGeminiIsVideo(doc) ==
    IF ~IsTrue(Get(doc, "is_video"))
    THEN << Err("is_video",
                Msg("must be true when is_gemini_processed_video is true"),
                DocId(doc)) >>
    ELSE << >>

\* lines 493-499, when root_folder / doc["path"] does not raise
DocGeminiPath(doc) ==
    IF ~Present(doc, "path") THEN << >>
    ELSE LET json_full_path == Parts(doc["path"].s)
         IN  IF /\ exists(json_full_path)
                /\ is_file(json_full_path)
                /\ ~validate_gemini_json_structure(ReadFile(json_full_path))
             THEN << Err("path", Msg("Gemini JSON file has invalid structure"),
                         DocId(doc)) >>
             ELSE << >>

\* lines 482-499
DocGemini(doc) ==
    IF IsTrue(Get(doc, "is_gemini_processed_video"))
    THEN DocGeminiIsVideo(doc) \o DocGeminiPath(doc)
    ELSE << >>

\* the results for the elements from position i on, last element first
RECURSIVE DocVideosBackwards(_, _, _)
DocVideosBackwards(videos, i, doc_id) ==
    IF i > Len(videos) THEN << >>
    ELSE DocVideosBackwards(videos, i + 1, doc_id)
         \o (IF videos[i].t # "dict"
             THEN << Returned(<< Err(Prefix(i - 1), Msg("must be a dictionary"),
                                     doc_id) >>) >>
             ELSE << validate_associated_video_lecture(videos[i].d, doc_id,
                                                       i - 1) >>)

\* lines 509-522: the results for the elements from position i on
RECURSIVE DocVideos(_, _, _)
DocVideos(videos, i, doc_id) ==
    IF i > Len(videos) THEN << >>
    ELSE (IF videos[i].t # "dict"
          THEN << Returned(<< Err(Prefix(i - 1), Msg("must be a dictionary"),
                                  doc_id) >>) >>
          ELSE << validate_associated_video_lecture(videos[i].d, doc_id, i - 1) >>)
         \o DocVideos(videos, i + 1, doc_id)

\* lines 502-522, when no call of the sub-record validator raises
DocAssociated(doc) ==
    IF ~Present(doc, "associated_video_lectures") THEN << >>
    ELSE IF doc["associated_video_lectures"].t # "list"
    THEN << Err("associated_video_lectures", Msg("must be a list"), DocId(doc)) >>
    ELSE LET results == DocVideos(doc["associated_video_lectures"].l, 1, DocId(doc))
         IN  Flatten([i \in 1..Len(results) |-> results[i].errors])

\* line 397: doc["path"].endswith raises AttributeError on a value that is
\* no str
RaisesAtPathSuffix(doc) ==
    VideoLectureGate(doc) /\ Present(doc, "path") /\ ~IsStr(doc["path"])

\* line 466: doc["is_video"] raises KeyError on a document without the key
RaisesAtIsVideo(doc) ==
    Present(doc, "original_link") /\ "is_video" \notin DOMAIN doc

\* line 494: root_folder / doc["path"] raises TypeError on a value that is
\* no str
RaisesAtGeminiPath(doc) ==
    /\ IsTrue(Get(doc, "is_gemini_processed_video"))
    /\ Present(doc, "path")
    /\ ~IsStr(doc["path"])

\* line 519: the sub-record validator raises
RaisesInVideos(doc) ==
    /\ Present(doc, "associated_video_lectures")
    /\ doc["associated_video_lectures"].t = "list"
    /\ \E i \in 1..Len(doc["associated_video_lectures"].l) :
          /\ doc["associated_video_lectures"].l[i].t = "dict"
          /\ VideoRaises(doc["associated_video_lectures"].l[i].d)

\* the exceptions that leave validate_document_fields
DocRaises(doc) ==
    \/ RaisesAtPathSuffix(doc)
    \/ RaisesAtIsVideo(doc)
    \/ RaisesAtGeminiPath(doc)
    \/ RaisesInVideos(doc)

validate_document_fields(doc) ==
    IF DocRaises(doc) THEN Raised
    ELSE Returned(DocWeek(doc)
                  \o DocString(doc, "number")
                  \o DocString(doc, "sub_number")
                  \o DocModel(doc)
                  \o DocVideoLecture(doc)
                  \o DocDate(doc, "from")
                  \o DocDate(doc, "until")
                  \o DocTikz(doc)
                  \o DocTitle(doc)
                  \o DocBook(doc)
                  \o DocProcessingMethod(doc)
                  \o DocSrtPath(doc)
                  \o DocOriginalLink(doc)
                  \o DocGemini(doc)
                  \o DocAssociated(doc))

---------------------------------------------------------------------------
(* Variables a specification does not use keep these values.               *)

\* main() has not run: its accumulators as lines 626-635 create them, and
\* no exit status yet (-1)
MainIdle ==
    /\ file_idx = 0
    /\ doc_idx = 0
    /\ paths_to_check = << >>
    /\ path_idx = 0
    /\ valid_paths = << >>
    /\ invalid_paths = << >>
    /\ field_errors = << >>
    /\ total_valid_paths = 0
    /\ total_invalid_paths = 0
    /\ total_field_errors = 0
    /\ all_invalid_paths = << >>
    /\ all_field_errors = << >>
    /\ referenced_paths = {}
    /\ types_set = {}
    /\ subtypes_set = {}
    /\ models_set = {}
    /\ processing_methods_set = {}
    /\ validating = << >>
    /\ error_printed = "none"
    /\ unreferenced_printed = << >>
    /\ exit_status = -1

\* a root with its metadata directory and no metadata file in it
NoMetadata ==
    /\ root_exists = TRUE
    /\ metadata_exists = TRUE
    /\ metadata_files = << >>

\* the sequences over S of length at most n
SeqUpTo(S, n) == UNION {[1..k -> S] : k \in 0..n}

---------------------------------------------------------------------------
(* validate_gemini_json_structure on its own: the file is the input.       *)

\* the key sets that lack at most one of the keys of S
AllButOne(S) == {S} \cup {S \ {k} : k \in S}

SegmentInputs ==
    {DictOfKeys(ks) : ks \in AllButOne(SegmentRequiredSet)}
        \cup {ListOfKeys(SegmentRequiredSet), JText(SegmentRequiredSet),
              JNum, JNone}

VideoSegmentsInputs ==
    {JArr(xs) : xs \in SeqUpTo(SegmentInputs, MaxSegments)}
        \cup {DictOfKeys(SegmentRequiredSet), JText(SegmentRequiredSet), JNone}

RootInputs ==
    {JDict([k \in ks |-> IF k = "video_segments" THEN vs ELSE JNum]) :
        ks \in AllButOne(RequiredSet), vs \in VideoSegmentsInputs}
        \cup {ListOfKeys(RequiredSet), JText(RequiredSet), JArr(<< >>),
              JNum, JNone}

GeminiFileInputs == {NoFile, NotJson} \cup {JsonFile(v) : v \in RootInputs}

GeminiInit ==
    /\ pc = "call"
    /\ arg \in GeminiFileInputs
    /\ ret = FALSE
    /\ case_insensitive = FALSE
    /\ NoMetadata
    /\ MainIdle

GeminiCheck ==
    /\ pc = "call"
    /\ ret' = validate_gemini_json_structure(arg)
    /\ pc' = "return"
    /\ UNCHANGED << arg, env_vars, main_vars >>

GeminiNext == GeminiCheck

GeminiSpec == GeminiInit /\ [][GeminiNext]_vars

\* what "container contains key" means to the claims below: a key of a
\* mapping, an element of a sequence, a substring of a string
Has(container, k) ==
    \/ container.t = "dict" /\ k \in DOMAIN container.fields
    \/ container.t = "list" /\ JText({k}) \in Range(container.items)
    \/ container.t = "str" /\ k \in container.toks

\* the shape the segmented-video-description check asks of a file
GeminiShape(file) ==
    /\ file.readable
    /\ file.parses
    /\ \A k \in RequiredSet : Has(file.json, k)
    /\ file.json.t = "dict"
    /\ file.json.fields["video_segments"].t = "list"
    /\ \A i \in 1..Len(file.json.fields["video_segments"].items) :
          \A k \in SegmentRequiredSet :
              Has(file.json.fields["video_segments"].items[i], k)

\* a segment without key k
SegmentWithout(segment, k) ==
    CASE segment.t = "dict" ->
            JDict([j \in DOMAIN segment.fields \ {k} |-> segment.fields[j]])
      [] segment.t = "list" ->
            JArr(SelectSeq(segment.items, LAMBDA e : e # JText({k})))
      [] segment.t = "str" -> JText(segment.toks \ {k})
      [] OTHER -> segment

\* the file with key k removed from its i-th segment
FileWithoutSegmentKey(file, i, k) ==
    LET vs == file.json.fields["video_segments"]
        segs == [vs.items EXCEPT ![i] = SegmentWithout(vs.items[i], k)]
    IN  JsonFile(JDict([file.json.fields EXCEPT !["video_segments"] = JArr(segs)]))

\* C8: the segmented-video-description check answers Valid exactly for a
\* file that parses as JSON, whose root contains the five top-level keys,
\* whose video_segments is a sequence and whose every segment contains the
\* thirteen per-segment keys; a Valid payload becomes Invalid when any one
\* required key is removed from any one segment; and every other file
\* (unreadable, unparsable, wrong top-level type) gets the answer Invalid,
\* not an exception.
C8_GeminiValidIffShape ==
    pc = "return" =>
        /\ ret \in BOOLEAN
        /\ ret = GeminiShape(arg)
        /\ ret =>
              \A i \in 1..Len(arg.json.fields["video_segments"].items) :
                  \A k \in SegmentRequiredSet :
                      ~validate_gemini_json_structure(
                          FileWithoutSegmentKey(arg, i, k))

\* a Valid payload of two segments has been checked
C8_Witness ==
    /\ pc = "return"
    /\ ret = TRUE
    /\ Len(arg.json.fields["video_segments"].items) >= 2

---------------------------------------------------------------------------
(* validate_associated_video_lecture on its own: the sub-record, its       *)
(* index and the file system's case rule are the input.                    *)

\* the records with exactly the keys K, the value of key k taken from
\* dom[k]
RECURSIVE Records(_, _)
Records(K, dom) ==
    IF K = {} THEN { [k \in {} |-> VNull] }
    ELSE LET k == CHOOSE k \in K : TRUE
         IN  { [j \in DOMAIN f \cup {k} |-> IF j = k THEN v ELSE f[j]] :
                   f \in Records(K \ {k}, dom), v \in dom[k] }

c_a_srt == << "c", "/" >> \o a_srt
c_A_pdf == << "c", "/" >> \o A_pdf
c_seg_json == << "c", "/" >> \o seg_json
c_segbad_json == << "c", "/" >> \o segbad_json
c_ts_json == << "c", "/" >> \o ts_json
c_tsbad_json == << "c", "/" >> \o tsbad_json
c_none_srt == << "c", "/", "n", "o", "n", "e", ".", "s", "r", "t" >>
c_none_json == << "c", "/", "n", "o", "n", "e", ".", "j", "s", "o", "n" >>
link_mediaspace ==
    << "h", "t", "t", "p", "s", ":", "/", "/" >> \o mediaspace \o << ".", "x" >>
link_edx ==
    << "h", "t", "t", "p", "s", ":", "/", "/", "e", "d", "x", ".", "o", "r", "g" >>
link_other ==
    << "h", "t", "t", "p", "s", ":", "/", "/", "y", "t", ".", "b", "e" >>

\* the values a sub-record's key takes in the inputs
VideoDom(k) ==
    CASE k = "title" ->
            {VNull, VStr(<< "a", "_", "b" >>), VStr(<< "a", "b" >>)}
      [] k = "is_gemini_processed_video" -> {VNull, VBool(TRUE)}
      [] k = "original_link" ->
            {VNull, VStr(link_mediaspace), VStr(link_other), VInt(5)}
      [] k = "path" -> {VNull, VStr(c_seg_json)}
      [] k = "srt_path" ->
            {VNull, VStr(c_a_srt), VStr(c_none_srt), VStr(c_A_pdf),
             VStr(c_none_json), VInt(5)}
      [] k = "pdf_page_video_ts_path" ->
            {VNull, VStr(c_ts_json), VStr(c_tsbad_json), VStr(c_none_json),
             VStr(<< "c" >>), VInt(5)}

VideoKeys ==
    {"title", "is_gemini_processed_video", "original_link", "path",
     "srt_path", "pdf_page_video_ts_path"}

\* the sub-records with exactly the keys K
VideoInputs(K) == Records(K, [k \in VideoKeys |-> VideoDom(k)])

VideoInit ==
    /\ pc = "call"
    /\ \E K \in SUBSET VideoKeys :
          arg \in [video : VideoInputs(K), index : 0..MaxIndex,
                   doc_id : {VInt(7)}]
    /\ ret = Returned(<< >>)
    /\ case_insensitive \in BOOLEAN
    /\ NoMetadata
    /\ MainIdle

VideoCheck ==
    /\ pc = "call"
    /\ ret' = validate_associated_video_lecture(arg.video, arg.doc_id, arg.index)
    /\ pc' = "return"
    /\ UNCHANGED << arg, env_vars, main_vars >>

VideoNext == VideoCheck

VideoSpec == VideoInit /\ [][VideoNext]_vars

\* the entries of an error list that name the field
ErrorsOn(errors, field) == SelectSeq(errors, LAMBDA e : e[1] = field)

\* the three-way semantics of the six required keys, on a returned list
ThreeWay(video, index, doc_id, errors) ==
    \A k \in VideoKeys :
        /\ k \notin DOMAIN video =>
              ErrorsOn(errors, Prefix(index) \o "." \o k)
                  = << Err(Prefix(index) \o "." \o k,
                           Msg("required field missing"), doc_id) >>
        /\ (k \in DOMAIN video /\ IsNone(video[k])) =>
              ErrorsOn(errors, Prefix(index) \o "." \o k) = << >>

\* C7: for each of the six required keys of a sub-record, the validator
\* yields exactly one violation "<prefix>.<key>: required field missing"
\* and no value-level violation when the key is absent, and no violation
\* at all for the key when it is present with the value null.
C7_ThreeWayFieldSemantics ==
    pc = "return" =>
        /\ ~ret.raised
        /\ ThreeWay(arg.video, arg.index, arg.doc_id, ret.errors)

\* C7, for the calls that return a list: the three-way semantics holds of
\* every list the validator returns
C7_ThreeWayWhenReturned ==
    (pc = "return" /\ ~ret.raised) =>
        ThreeWay(arg.video, arg.index, arg.doc_id, ret.errors)

---------------------------------------------------------------------------
(* validate_document_fields on its own: the document and the file system's *)
(* case rule are the input.                                                *)

date_ok == << "0", "9", "/", "0", "9", "/", "2", "0", "2", "5" >>
date_short == << "9", "/", "9", "/", "2", "0", "2", "5" >>

\* sub-records: one without violations, one with a violation on each
\* checked key, one on which the validator raises
VideoGood ==
    VDict([k \in VideoKeys |->
              CASE k = "title" -> VStr(<< "a", "b" >>)
                [] k = "is_gemini_processed_video" -> VBool(TRUE)
                [] k = "original_link" -> VStr(link_mediaspace)
                [] k = "path" -> VStr(c_seg_json)
                [] k = "srt_path" -> VStr(c_a_srt)
                [] k = "pdf_page_video_ts_path" -> VStr(c_ts_json)])

VideoBad ==
    VDict([k \in VideoKeys \ {"path"} |->
              CASE k = "title" -> VStr(<< "a", "_", "b" >>)
                [] k = "is_gemini_processed_video" -> VNull
                [] k = "original_link" -> VStr(link_other)
                [] k = "srt_path" -> VStr(c_none_srt)
                [] k = "pdf_page_video_ts_path" -> VStr(c_tsbad_json)])

VideoRaising == VDict([k \in {"pdf_page_video_ts_path"} |-> VInt(5)])

\* the values a document's key takes in the inputs
DocDom(k) ==
    CASE k = "id" -> {VInt(7)}
      [] k = "type" -> {VStr(<< "p", "d", "f" >>)}
      [] k = "subtype" ->
            {VStr(video_lecture), VStr(book_in_bibliography),
             VStr(<< "o", "t", "h", "e", "r" >>)}
      [] k = "week" -> {VNull, VInt(3), VStr(<< "3" >>)}
      [] k = "number" -> {VStr(<< "1" >>), VInt(1)}
      [] k = "sub_number" -> {VStr(<< "1" >>), VInt(1)}
      [] k = "model" ->
            {VStr(<< "g", "e", "m", "i", "n", "i", "-", "2", ".", "5", "-",
                     "p", "r", "o" >>),
             VStr(<< "g", "p", "t" >>)}
      [] k = "path" ->
            {VNull, VStr(c_seg_json), VStr(c_segbad_json), VStr(c_A_pdf),
             VStr(c_none_json), VInt(5)}
      [] k = "is_video" -> {VNull, VBool(TRUE), VBool(FALSE), VInt(1)}
      [] k = "is_qa" -> {VBool(TRUE), VBool(FALSE)}
      [] k = "from" -> {VStr(date_ok), VStr(date_short), VInt(5)}
      [] k = "until" -> {VStr(date_ok \o << "\n" >>), VStr(date_ok \o << "0" >>)}
      [] k = "tikz" -> {VNull, VBool(TRUE), VBool(FALSE)}
      [] k = "title" -> {VStr(<< "a", "_", "b" >>), VStr(<< "a", "b" >>)}
      [] k = "one_chunk_per_page" -> {VNull, VBool(TRUE), VBool(FALSE)}
      [] k = "one_chunk_per_doc" -> {VBool(TRUE), VBool(FALSE)}
      [] k = "processing_method" ->
            {VStr(<< "g", "o", "o", "g", "l", "e" >>), VStr(<< "o", "c", "r" >>)}
      [] k = "srt_path" -> {VStr(c_a_srt), VStr(c_A_pdf), VInt(5)}
      [] k = "pdf_page_video_ts_path" -> {VStr(c_ts_json)}
      [] k = "original_link" ->
            {VNull, VStr(link_mediaspace), VStr(link_edx), VStr(link_other),
             VInt(5)}
      [] k = "is_gemini_processed_video" -> {VBool(TRUE), VBool(FALSE)}
      [] k = "associated_video_lectures" ->
            {VNull, VStr(<< "x" >>), VList(<< >>), VList(<< VideoGood >>),
             VList(<< VInt(5), VideoBad >>), VList(<< VideoBad, VideoBad >>),
             VList(<< VideoRaising >>)}

DocKeySeq ==
    << "id", "type", "subtype", "week", "number", "sub_number", "model",
       "path", "is_video", "is_qa", "from", "until", "tikz", "title",
       "one_chunk_per_page", "one_chunk_per_doc", "processing_method",
       "srt_path", "pdf_page_video_ts_path", "original_link",
       "is_gemini_processed_video", "associated_video_lectures" >>

\* the sets of at most n of the keys from position i on
RECURSIVE KeySets(_, _)
KeySets(i, n) ==
    IF n = 0 \/ i > Len(DocKeySeq) THEN {{}}
    ELSE KeySets(i + 1, n)
            \cup {K \cup {DocKeySeq[i]} : K \in KeySets(i + 1, n - 1)}

\* the documents with exactly the keys K
DocInputs(K) == Records(K, [k \in Range(DocKeySeq) |-> DocDom(k)])

DocInit ==
    /\ pc = "call"
    /\ \E K \in KeySets(1, MaxKeys) : arg \in DocInputs(K)
    /\ ret = Returned(<< >>)
    /\ case_insensitive \in BOOLEAN
    /\ NoMetadata
    /\ MainIdle

DocCheck ==
    /\ pc = "call"
    /\ ret' = validate_document_fields(arg)
    /\ pc' = "return"
    /\ UNCHANGED << arg, env_vars, main_vars >>

DocNext == DocCheck

DocSpec == DocInit /\ [][DocNext]_vars

\* e is an entry of the error list
In(e, errors) == \E i \in 1..Len(errors) : errors[i] = e

IsVideoViolation(doc) ==
    Err("is_video", Msg("must be true when subtype is 'video_lecture'"),
        DocId(doc))

PathSuffixViolation(doc) ==
    Err("path", Msg("must end with '.json' when subtype is 'video_lecture'"),
        DocId(doc))

OriginalLinkViolation(doc) ==
    Err("original_link",
        Msg("must be null or contain 'mediaspace' or a MOOC platform"),
        DocId(doc))

\* C1: validate_document_fields never raises: whatever keys the document
\* has and whatever the types of their values, it returns a list of
\* violations.
C1_NeverRaises == pc = "return" => ~ret.raised

\* C4: for a document with subtype 'video_lecture' (and no is_qa
\* exemption), the returned list contains (is_video, "must be true when
\* subtype is 'video_lecture'", id) exactly when is_video is anything other
\* than exactly true, the key being absent included, and contains the path
\* violation of this rule exactly when path is present, non-null and does
\* not end in '.json'.
C4_VideoLectureRule ==
    (/\ pc = "return"
     /\ ~ret.raised
     /\ SubtypeIs(arg, video_lecture)
     /\ ~Truthy(Get(arg, "is_qa"))) =>
        /\ In(IsVideoViolation(arg), ret.errors)
              <=> ~IsTrue(Get(arg, "is_video"))
        /\ In(PathSuffixViolation(arg), ret.errors)
              <=> (/\ Present(arg, "path")
                   /\ ~(IsStr(arg["path"]) /\ EndsWith(arg["path"].s, dot_json)))

\* C5: a document with subtype 'video_lecture' and is_qa true gets neither
\* the '.json'-suffix violation on path nor the "must be true when subtype
\* is 'video_lecture'" violation on is_video, whatever its path and
\* is_video.
C5_IsQaExempts ==
    (/\ pc = "return"
     /\ ~ret.raised
     /\ SubtypeIs(arg, video_lecture)
     /\ IsTrue(Get(arg, "is_qa"))) =>
        /\ ~In(IsVideoViolation(arg), ret.errors)
        /\ ~In(PathSuffixViolation(arg), ret.errors)

\* C6: for a document whose original_link is present and non-null (and on
\* which no other rule raises), the list is returned, and it holds an
\* original_link violation exactly when is_video is true and original_link
\* is not a string containing one of 'mediaspace', 'coursera',
\* 'courseware', 'edx'; when is_video is not true, the key being absent
\* included, nothing is reported and the remaining rules are evaluated.
C6_OriginalLinkGatedOnIsVideo ==
    (/\ pc = "return"
     /\ Present(arg, "original_link")
     /\ ~RaisesAtPathSuffix(arg)
     /\ ~RaisesAtGeminiPath(arg)
     /\ ~RaisesInVideos(arg)) =>
        /\ ~ret.raised
        /\ In(OriginalLinkViolation(arg), ret.errors)
              <=> (/\ Truthy(Get(arg, "is_video"))
                   /\ ~(/\ IsStr(arg["original_link"])
                        /\ \E p \in {mediaspace, coursera, courseware, edx} :
                              Contains(arg["original_link"].s, p)))

---------------------------------------------------------------------------
(* main() over a corpus, step by step: one step per metadata file, per     *)
(* document and per declared path.  The process ends at pc = "done" (the   *)
(* report is printed) or at pc = "exit" (sys.exit(1) or a traceback).      *)

json_file_name(i) == << "m", ToString(i) >> \o dot_json
text_file_name(i) == << "n", ToString(i), ".", "t", "x", "t" >>

c_a_pdf == << "c", "/", "a", ".", "p", "d", "f" >>
x_B_pdf == << "x", "/" >> \o B_pdf
C_A_pdf == << "C", "/" >> \o A_pdf

\* the documents of the corpus inputs
DocValid ==
    [k \in {"id", "type", "path"} |->
        CASE k = "id" -> VInt(1)
          [] k = "type" -> VStr(<< "p", "d", "f" >>)
          [] k = "path" -> VStr(c_A_pdf)]

\* its path differs from c/A.pdf in letter case only, and it breaks the
\* video_lecture rule
DocCaseDiffers ==
    [k \in {"id", "subtype", "is_video", "path"} |->
        CASE k = "id" -> VInt(2)
          [] k = "subtype" -> VStr(video_lecture)
          [] k = "is_video" -> VBool(FALSE)
          [] k = "path" -> VStr(c_a_pdf)]

\* the directory x does not exist
DocMissingDir ==
    [k \in {"id", "path"} |->
        CASE k = "id" -> VInt(3)
          [] k = "path" -> VStr(x_B_pdf)]

DocWithVideos ==
    [k \in {"id", "path", "srt_path", "associated_video_lectures"} |->
        CASE k = "id" -> VInt(4)
          [] k = "path" -> VNull
          [] k = "srt_path" -> VStr(c_a_srt)
          [] k = "associated_video_lectures" -> VList(<< VideoGood >>)]

\* validate_document_fields raises on it (line 466)
DocRaising ==
    [k \in {"id", "original_link"} |->
        CASE k = "id" -> VInt(5)
          [] k = "original_link" -> VStr(link_other)]

\* its directory differs from c in letter case only
DocDirCaseDiffers ==
    [k \in {"id", "path"} |->
        CASE k = "id" -> VInt(6)
          [] k = "path" -> VStr(C_A_pdf)]

MainDocs ==
    {DocValid, DocCaseDiffers, DocMissingDir, DocWithVideos, DocRaising,
     DocDirCaseDiffers}

\* one entry of os.listdir(metadata_dir): its name, whether json.load
\* accepts its content, and the value json.load returns
Entry(name, parses, root) == [name |-> name, parses |-> parses, root |-> root]

\* the files at position i of the listing that hold k documents
Contents(i, k) ==
    (IF k > 0 THEN {}
     ELSE {Entry(text_file_name(i), FALSE, VNull),
           Entry(json_file_name(i), FALSE, VNull),
           Entry(json_file_name(i), TRUE, VDict([key \in {"course"} |-> VInt(1)])),
           Entry(json_file_name(i), TRUE, VList(<< >>))})
    \cup {Entry(json_file_name(i), TRUE,
                VDict([key \in {"documents"} |->
                          VList([j \in 1..k |-> VDict(ds[j])])])) :
             ds \in [1..k -> MainDocs]}

\* the listings of n files of which the i-th holds ks[i] documents
RECURSIVE Listings(_, _)
Listings(n, ks) ==
    IF n = 0 THEN {<< >>}
    ELSE {Append(files, f) : files \in Listings(n - 1, ks),
                             f \in Contents(n, ks[n])}

RECURSIVE Sum(_)
Sum(ks) == IF ks = << >> THEN 0 ELSE Head(ks) + Sum(Tail(ks))

Init ==
    /\ pc = "start"
    /\ arg = << >>
    /\ ret = FALSE
    /\ case_insensitive \in BOOLEAN
    /\ \/ /\ root_exists = FALSE
          /\ metadata_exists = FALSE
          /\ metadata_files = << >>
       \/ /\ root_exists = TRUE
          /\ metadata_exists = FALSE
          /\ metadata_files = << >>
       \/ /\ root_exists = TRUE
          /\ metadata_exists = TRUE
          /\ \E n \in 0..MaxFiles :
                \E ks \in [1..n -> 0..MaxDocs] :
                    /\ Sum(ks) <= MaxDocs
                    /\ metadata_files \in Listings(n, ks)
    /\ MainIdle

\* sys.exit(1), or an exception nothing catches: the process ends with
\* status 1 after printing the message
Exit(message) ==
    /\ pc' = "exit"
    /\ error_printed' = message
    /\ exit_status' = 1

\* lines 623-625
RootMissing ==
    /\ pc = "start"
    /\ ~exists(<< >>)
    /\ Exit("Error: Root folder does not exist.")
    /\ UNCHANGED << arg, ret, env_vars, file_idx, file_vars, acc_vars,
                    summary_vars, validating, unreferenced_printed >>

\* lines 627-640: os.listdir(metadata_dir) raises when the directory is
\* missing, and nothing catches it
Start ==
    /\ pc = "start"
    /\ exists(<< >>)
    /\ IF is_dir(<< metadata >>)
       THEN /\ pc' = "loop"
            /\ file_idx' = 1
            /\ UNCHANGED << error_printed, exit_status >>
       ELSE /\ Exit("Traceback")
            /\ UNCHANGED file_idx
    /\ UNCHANGED << arg, ret, env_vars, file_vars, acc_vars, summary_vars,
                    validating, unreferenced_printed >>

\* line 641
IsJsonName(name) == EndsWith(name, dot_json)

\* lines 641-642
SkipFile ==
    /\ pc = "loop"
    /\ file_idx <= Len(metadata_files)
    /\ ~IsJsonName(metadata_files[file_idx].name)
    /\ file_idx' = file_idx + 1
    /\ UNCHANGED << pc, arg, ret, env_vars, file_vars, acc_vars, summary_vars,
                    validating, error_printed, unreferenced_printed,
                    exit_status >>

\* a json.load that accepts every content
ParseFailsNever(f) == FALSE

\* json.load(f) raises json.JSONDecodeError (lines 572-573, 646-648)
ParseFails(f) == ~f.parses

\* data["documents"] as the for loops at 651 and 579 walk it
Documents(root) ==
    IF "documents" \in DOMAIN root.d /\ root.d["documents"].t = "list"
    THEN root.d["documents"].l
    ELSE << >>

\* lines 650-659: whether the else block raises.  It is outside the try, so
\* the exception ends the process.
AggregateRaises(root) ==
    \/ root.t # "dict"
    \/ /\ "documents" \in DOMAIN root.d
       /\ LET v == root.d["documents"]
          IN  \/ v.t \notin {"list", "str", "dict"}
              \/ v.t = "str" /\ v.s # << >>
              \/ v.t = "dict" /\ DOMAIN v.d # {}
              \/ /\ v.t = "list"
                 /\ \E i \in 1..Len(v.l) :
                       \/ v.l[i].t # "dict"
                       \/ /\ v.l[i].t = "dict"
                          /\ \E k \in {"type", "subtype", "model",
                                       "processing_method"} :
                                Get(v.l[i].d, k).t \in {"list", "dict"}

\* lines 652-659: the values one summary key adds
Collected(root, key) ==
    {Get(Documents(root)[i].d, key) : i \in
        {j \in 1..Len(Documents(root)) : Present(Documents(root)[j].d, key)}}

\* lines 644-649: the file does not parse, the aggregation passes it over,
\* and validate_json_file ends the process (lines 598-600)
FileInvalidJson ==
    /\ pc = "loop"
    /\ file_idx <= Len(metadata_files)
    /\ IsJsonName(metadata_files[file_idx].name)
    /\ ParseFails(metadata_files[file_idx])
    /\ validating' = Append(validating, metadata_files[file_idx].name)
    /\ Exit("Error: Invalid JSON in file")
    /\ UNCHANGED << arg, ret, env_vars, file_idx, file_vars, acc_vars,
                    summary_vars, unreferenced_printed >>

\* lines 644-659: the aggregation raises before the file is announced
FileAggregateCrash ==
    /\ pc = "loop"
    /\ file_idx <= Len(metadata_files)
    /\ IsJsonName(metadata_files[file_idx].name)
    /\ ~ParseFails(metadata_files[file_idx])
    /\ AggregateRaises(metadata_files[file_idx].root)
    /\ Exit("Traceback")
    /\ UNCHANGED << arg, ret, env_vars, file_idx, file_vars, acc_vars,
                    summary_vars, validating, unreferenced_printed >>

\* lines 644-664 and 567-579: the aggregation, the announcement, and
\* validate_json_file up to its document loop
FileOpen ==
    /\ pc = "loop"
    /\ file_idx <= Len(metadata_files)
    /\ IsJsonName(metadata_files[file_idx].name)
    /\ ~ParseFails(metadata_files[file_idx])
    /\ LET f == metadata_files[file_idx]
           root == IF f.parses THEN f.root ELSE VDict(<< >>)
       IN  /\ ~AggregateRaises(root)
           /\ types_set' = types_set \cup Collected(root, "type")
           /\ subtypes_set' = subtypes_set \cup Collected(root, "subtype")
           /\ models_set' = models_set \cup Collected(root, "model")
           /\ processing_methods_set' =
                 processing_methods_set \cup Collected(root, "processing_method")
           /\ validating' = Append(validating, f.name)
           /\ valid_paths' = << >>
           /\ invalid_paths' = << >>
           /\ field_errors' = << >>
           /\ paths_to_check' = << >>
           /\ path_idx' = 0
           /\ IF "documents" \notin DOMAIN root.d
              THEN \* lines 575-577 and 666-679 on three empty lists
                   /\ doc_idx' = 0
                   /\ file_idx' = file_idx + 1
                   /\ pc' = "loop"
              ELSE /\ doc_idx' = 1
                   /\ UNCHANGED file_idx
                   /\ pc' = "docs"
    /\ UNCHANGED << arg, ret, env_vars, acc_vars, error_printed,
                    unreferenced_printed, exit_status >>

\* the documents of the file validate_json_file is in
CurrentDocs ==
    IF metadata_files[file_idx].parses
    THEN Documents(metadata_files[file_idx].root)
    ELSE << >>

path_attributes == << "path", "srt_path", "pdf_page_video_ts_path" >>

\* lines 538-540
RECURSIVE MainPaths(_, _)
MainPaths(attrs, doc) ==
    IF attrs = << >> THEN << >>
    ELSE (IF Present(doc, Head(attrs))
          THEN << << Head(attrs), doc[Head(attrs)], DocId(doc) >> >>
          ELSE << >>) \o MainPaths(Tail(attrs), doc)

\* lines 549-553 on one sub-record that is a dict
RECURSIVE VideoPaths(_, _, _, _)
VideoPaths(attrs, video, i, doc_id) ==
    IF attrs = << >> THEN << >>
    ELSE (IF Present(video, Head(attrs))
          THEN << << Prefix(i) \o "." \o Head(attrs), video[Head(attrs)],
                     doc_id >> >>
          ELSE << >>) \o VideoPaths(Tail(attrs), video, i, doc_id)

\* lines 547-550: whether the walk over associated_video_lectures raises.
\* enumerate() needs an iterable; "attr in video" needs a container, and on
\* a str or a list that holds attr the subscript video[attr] raises.
ExtractRaises(doc) ==
    /\ Present(doc, "associated_video_lectures")
    /\ LET v == doc["associated_video_lectures"]
       IN  \/ v.t \notin {"list", "str", "dict"}
           \/ /\ v.t = "dict"
              /\ DOMAIN v.d \cap Range(path_attributes) # {}
           \/ /\ v.t = "list"
              /\ \E i \in 1..Len(v.l) :
                    LET video == v.l[i]
                    IN  \/ video.t \notin {"dict", "str", "list"}
                        \/ /\ video.t = "str"
                           /\ Contains(video.s, << "p", "a", "t", "h" >>)
                        \/ /\ video.t = "list"
                           /\ \E j \in 1..Len(video.l) :
                                 /\ IsStr(video.l[j])
                                 /\ video.l[j].s \in
                                       {<< "p", "a", "t", "h" >>,
                                        << "s", "r", "t", "_", "p", "a", "t", "h" >>}

\* lines 527-555, when it returns
extract_paths_from_document(doc) ==
    MainPaths(path_attributes, doc)
        \o (IF /\ Present(doc, "associated_video_lectures")
               /\ doc["associated_video_lectures"].t = "list"
            THEN LET v == doc["associated_video_lectures"].l
                 IN  Flatten([i \in 1..Len(v) |->
                                 IF v[i].t = "dict"
                                 THEN VideoPaths(path_attributes, v[i].d, i - 1,
                                                 DocId(doc))
                                 ELSE << >>])
            ELSE << >>)

\* lines 602-604: validate_document_fields or extract_paths_from_document
\* raises, the handler prints and ends the process
DocCrash ==
    /\ pc = "docs"
    /\ doc_idx <= Len(CurrentDocs)
    /\ LET doc == CurrentDocs[doc_idx].d
       IN  validate_document_fields(doc).raised \/ ExtractRaises(doc)
    /\ Exit("Error processing file")
    /\ UNCHANGED << arg, ret, env_vars, file_idx, file_vars, acc_vars,
                    summary_vars, validating, unreferenced_printed >>

\* lines 579-585
DocStep ==
    /\ pc = "docs"
    /\ doc_idx <= Len(CurrentDocs)
    /\ LET doc == CurrentDocs[doc_idx].d
       IN  /\ ~validate_document_fields(doc).raised
           /\ ~ExtractRaises(doc)
           /\ field_errors' = field_errors \o validate_document_fields(doc).errors
           /\ paths_to_check' = extract_paths_from_document(doc)
    /\ path_idx' = 1
    /\ pc' = "paths"
    /\ UNCHANGED << arg, ret, env_vars, file_idx, doc_idx, valid_paths,
                    invalid_paths, acc_vars, summary_vars, validating,
                    error_printed, unreferenced_printed, exit_status >>

\* line 588: Path / value raises TypeError unless value is a str.  Lines
\* 591-592: os.listdir raises unless the parent is a directory.
PathRaises(path_value) ==
    \/ ~IsStr(path_value)
    \/ Parts(path_value.s) = << >>
    \/ ~is_dir(Parent(Parts(path_value.s)))

\* line 593: filename in all_files_in_dir
NameInListing(filename, all_files_in_dir) == filename \in all_files_in_dir

\* lines 586-592 and 602-604: the listing of the parent raises, the handler
\* prints and ends the process
PathCrash ==
    /\ pc = "paths"
    /\ path_idx <= Len(paths_to_check)
    /\ PathRaises(paths_to_check[path_idx][2])
    /\ Exit("Error processing file")
    /\ UNCHANGED << arg, ret, env_vars, file_idx, file_vars, acc_vars,
                    summary_vars, validating, unreferenced_printed >>

\* lines 586-596
PathStep ==
    /\ pc = "paths"
    /\ path_idx <= Len(paths_to_check)
    /\ ~PathRaises(paths_to_check[path_idx][2])
    /\ LET entry == paths_to_check[path_idx]
           full_path == Parts(entry[2].s)
       IN  IF NameInListing(Name(full_path), listdir(Parent(full_path)))
           THEN /\ valid_paths' = Append(valid_paths, entry)
                /\ UNCHANGED invalid_paths
           ELSE /\ invalid_paths' = Append(invalid_paths, entry)
                /\ UNCHANGED valid_paths
    /\ path_idx' = path_idx + 1
    /\ UNCHANGED << pc, arg, ret, env_vars, file_idx, doc_idx, paths_to_check,
                    field_errors, acc_vars, summary_vars, validating,
                    error_printed, unreferenced_printed, exit_status >>

\* line 586: the path loop of a document ends, the document loop goes on
DocDone ==
    /\ pc = "paths"
    /\ path_idx > Len(paths_to_check)
    /\ doc_idx' = doc_idx + 1
    /\ pc' = "docs"
    /\ UNCHANGED << arg, ret, env_vars, file_idx, paths_to_check, path_idx,
                    valid_paths, invalid_paths, field_errors, acc_vars,
                    summary_vars, validating, error_printed,
                    unreferenced_printed, exit_status >>

\* lines 670-675: the report's entry for a list entry of json_file
Tagged(json_file, entries) ==
    [i \in 1..Len(entries) |->
        << json_file, entries[i][3], entries[i][1], entries[i][2] >>]

\* lines 605 and 666-679: validate_json_file returns its three lists and
\* main adds them to its totals
FileReturn ==
    /\ pc = "docs"
    /\ doc_idx > Len(CurrentDocs)
    /\ total_valid_paths' = total_valid_paths + Len(valid_paths)
    /\ total_invalid_paths' = total_invalid_paths + Len(invalid_paths)
    /\ total_field_errors' = total_field_errors + Len(field_errors)
    /\ all_invalid_paths' =
          all_invalid_paths
              \o Tagged(metadata_files[file_idx].name, invalid_paths)
    /\ all_field_errors' =
          all_field_errors \o Tagged(metadata_files[file_idx].name, field_errors)
    /\ referenced_paths' =
          referenced_paths \cup {e[2] : e \in Range(valid_paths \o invalid_paths)}
    /\ file_idx' = file_idx + 1
    /\ pc' = "loop"
    /\ UNCHANGED << arg, ret, env_vars, file_vars, summary_vars, validating,
                    error_printed, unreferenced_printed, exit_status >>

\* lines 17-22: the files list_non_hidden_files keeps
NonHidden ==
    {PathStr(e.path) : e \in
        {d \in Disk : \A i \in 1..Len(d.path) : ~StartsWith(d.path[i], << "." >>)}}

\* the files of S in ascending order
RECURSIVE Ascending(_)
Ascending(S) ==
    IF S = {} THEN << >>
    ELSE LET x == CHOOSE x \in S : \A y \in S \ {x} : StrLess(x, y)
         IN  << x >> \o Ascending(S \ {x})

Reverse(xs) == [i \in 1..Len(xs) |-> xs[Len(xs) + 1 - i]]

Rotate(xs, k) == SubSeq(xs, k + 1, Len(xs)) \o SubSeq(xs, 1, k)

\* line 16: the orders rglob yields the files of S in.  The order is the
\* file system's; the inputs take the rotations of the ascending and of the
\* descending order.
Orders(S) ==
    {Rotate(xs, k) : xs \in {Ascending(S), Reverse(Ascending(S))},
                     k \in 0..(Cardinality(S) - 1)}
        \cup {Ascending(S)}

metadata_slash == metadata \o << "/" >>

\* the test of line 712 without its metadata/ exclusion
IsUnreferencedAnywhere(f, referenced) == VStr(f) \notin referenced

\* line 712
IsUnreferenced(f, referenced) ==
    VStr(f) \notin referenced /\ ~StartsWith(f, metadata_slash)

\* lines 710-713
RECURSIVE Unreferenced(_, _)
Unreferenced(all_files, referenced) ==
    IF all_files = << >> THEN << >>
    ELSE (IF IsUnreferenced(Head(all_files), referenced)
          THEN << Head(all_files) >> ELSE << >>)
            \o Unreferenced(Tail(all_files), referenced)

\* lines 728-732: ", ".join raises on a value that is not a str
SummaryRaises ==
    \E v \in types_set \cup subtypes_set \cup models_set
                \cup processing_methods_set : ~IsStr(v)

\* lines 681-732: the report
Report ==
    /\ pc = "loop"
    /\ file_idx > Len(metadata_files)
    /\ \E all_files \in Orders(NonHidden) :
          unreferenced_printed' = sorted(Unreferenced(all_files, referenced_paths))
    /\ pc' = IF SummaryRaises THEN "exit" ELSE "done"
    /\ error_printed' = IF SummaryRaises THEN "Traceback" ELSE error_printed
    /\ exit_status' = IF SummaryRaises THEN 1 ELSE 0
    /\ UNCHANGED << arg, ret, env_vars, file_idx, file_vars, acc_vars,
                    summary_vars, validating >>

Next ==
    \/ RootMissing
    \/ Start
    \/ SkipFile
    \/ FileInvalidJson
    \/ FileAggregateCrash
    \/ FileOpen
    \/ DocCrash
    \/ DocStep
    \/ PathCrash
    \/ PathStep
    \/ DocDone
    \/ FileReturn
    \/ Report

Spec == Init /\ [][Next]_vars

---------------------------------------------------------------------------
(* Claims about the run over a corpus.                                     *)

\* the entry the path loop is at
CurrentEntry == paths_to_check[path_idx]

\* the path loop is at a path whose parent directory does not exist
AtMissingDirectory ==
    /\ pc = "paths"
    /\ path_idx <= Len(paths_to_check)
    /\ IsStr(CurrentEntry[2])
    /\ Parts(CurrentEntry[2].s) # << >>
    /\ ~is_dir(Parent(Parts(CurrentEntry[2].s)))

\* C2: a declared path whose parent directory does not exist is classified
\* Invalid and the run goes on with the next path; the process does not end.
C2_MissingDirectoryIsInvalid ==
    [][AtMissingDirectory =>
          /\ invalid_paths' = Append(invalid_paths, CurrentEntry)
          /\ valid_paths' = valid_paths
          /\ path_idx' = path_idx + 1
          /\ pc' = "paths"
          /\ exit_status' = exit_status]_vars

\* the entries validate_json_file has classified
Classified == Range(valid_paths) \cup Range(invalid_paths)

\* the final segment equals, character for character, a direct entry of the
\* parent directory
FinalSegmentListed(value) ==
    \E e \in Disk :
        /\ Len(e.path) >= Len(Parts(value.s))
        /\ SamePath(SubSeq(e.path, 1, Len(Parts(value.s)) - 1),
                    Parent(Parts(value.s)))
        /\ e.path[Len(Parts(value.s))] = Name(Parts(value.s))

\* the value names no file exactly, and names one when letter case is
\* ignored
DiffersInCaseOnly(value) ==
    /\ \A e \in Disk : PathStr(e.path) # value.s
    /\ \E e \in Disk : Lower(PathStr(e.path)) = Lower(value.s)

\* an entry is in exactly one list, and in the valid one iff its final
\* segment is listed
C3_FinalSegmentExact ==
    /\ Range(valid_paths) \cap Range(invalid_paths) = {}
    /\ \A e \in Classified :
          e \in Range(valid_paths) <=> FinalSegmentListed(e[2])

\* C3: a classified path is Valid iff its final segment equals, character
\* for character, a direct entry of its parent directory, and a path that
\* differs from an existing file only in letter case is Invalid.
C3_ExactCaseSensitive ==
    /\ C3_FinalSegmentExact
    /\ \A e \in Classified :
          DiffersInCaseOnly(e[2]) => e \in Range(invalid_paths)

\* the non-hidden files under the root, by their root-relative paths
FilesOnDisk ==
    {PathStr(e.path) : e \in
        {d \in Disk : \A i \in 1..Len(d.path) : Head(d.path[i]) # "."}}

\* the documents of the metadata files
CorpusDocs ==
    UNION {Range(Documents(metadata_files[i].root)) : i \in
              {j \in 1..Len(metadata_files) :
                  /\ EndsWith(metadata_files[j].name, dot_json)
                  /\ metadata_files[j].parses
                  /\ metadata_files[j].root.t = "dict"}}

\* the sub-records of a document
SubRecords(doc) ==
    IF Present(doc, "associated_video_lectures")
          /\ doc["associated_video_lectures"].t = "list"
    THEN {v \in Range(doc["associated_video_lectures"].l) : v.t = "dict"}
    ELSE {}

\* the non-null path values the documents and their sub-records declare
DeclaredValues ==
    UNION {{r[k] : k \in {a \in Range(path_attributes) : Present(r, a)}} :
              r \in {doc.d : doc \in CorpusDocs}
                      \cup UNION {{v.d : v \in SubRecords(doc.d)} :
                                     doc \in CorpusDocs}}

UnderMetadata(f) == Len(Parts(f)) > 1 /\ Parts(f)[1] = metadata

\* C9: in the report of a completed run, a non-hidden file under the root
\* is listed as unreferenced iff its root-relative path equals no declared
\* non-null path value and it is not under metadata/; each such file is
\* listed once and the list is in sorted order.
C9_OrphansAreSetDifference ==
    pc = "done" =>
        /\ Range(unreferenced_printed) \subseteq FilesOnDisk
        /\ \A f \in FilesOnDisk :
              f \in Range(unreferenced_printed)
                  <=> (VStr(f) \notin DeclaredValues /\ ~UnderMetadata(f))
        /\ \A i, j \in 1..Len(unreferenced_printed) :
              i < j => /\ unreferenced_printed[i] # unreferenced_printed[j]
                       /\ StrLess(unreferenced_printed[i], unreferenced_printed[j])

\* a completed run over a corpus with metadata files, a referenced file, an
\* invalid declared path and several orphans
C9_Witness ==
    /\ pc = "done"
    /\ Len(metadata_files) > 0
    /\ Len(unreferenced_printed) >= 2
    /\ all_invalid_paths # << >>
    /\ \E f \in FilesOnDisk : VStr(f) \in DeclaredValues

\* the file at position i is read as JSON and does not parse
Unparsable(i) ==
    /\ EndsWith(metadata_files[i].name, dot_json)
    /\ ~metadata_files[i].parses

\* C10: once a metadata file that does not parse as JSON is announced, the
\* process has ended with a non-zero status at that file: no later file is
\* announced and the report is not produced.  The same holds when the root
\* directory does not exist.
C10_UnparsableFileIsFatal ==
    /\ \A i \in 1..Len(metadata_files) :
          (Unparsable(i) /\ metadata_files[i].name \in Range(validating)) =>
              /\ pc = "exit"
              /\ exit_status # 0 /\ exit_status # -1
              /\ validating[Len(validating)] = metadata_files[i].name
              /\ \A j \in (i + 1)..Len(metadata_files) :
                    metadata_files[j].name \notin Range(validating)
    /\ pc = "done" => \A i \in 1..Len(metadata_files) : ~Unparsable(i)
    /\ (~root_exists /\ pc # "start") =>
          /\ pc = "exit"
          /\ exit_status # 0 /\ exit_status # -1
          /\ validating = << >>

\* the run ended at an unparsable file, with a parsable metadata file
\* after it in the listing
C10_Witness ==
    /\ pc = "exit"
    /\ error_printed = "Error: Invalid JSON in file"
    /\ Unparsable(1)
    /\ validating = << metadata_files[1].name >>
    /\ Len(metadata_files) > 1
    /\ EndsWith(metadata_files[2].name, dot_json)
    /\ metadata_files[2].parses

---------------------------------------------------------------------------
(* Claims about the path fields of a sub-record (VideoSpec).               *)

\* the value names an existing file under the root
NamesFile(value) == IsStr(value) /\ is_file(Parts(value.s))

SrtSuffixViolation(index, doc_id) ==
    Err(Prefix(index) \o ".srt_path", Msg("must be null or end with '.srt'"),
        doc_id)

SrtExistenceViolation(index, doc_id) ==
    Err(Prefix(index) \o ".srt_path", Msg("file does not exist"), doc_id)

\* C11: on a sub-record whose srt_path is non-null the suffix check and the
\* existence check are independent: the suffix violation is reported iff
\* the value is not a string ending in '.srt', the existence violation iff
\* a string value names no existing file, and a value that fails both gets
\* both.
C11_SrtChecksIndependent ==
    (pc = "return" /\ ~ret.raised /\ Present(arg.video, "srt_path")) =>
        /\ In(SrtSuffixViolation(arg.index, arg.doc_id), ret.errors)
              <=> ~(/\ IsStr(arg.video["srt_path"])
                    /\ EndsWith(arg.video["srt_path"].s, dot_srt))
        /\ IsStr(arg.video["srt_path"]) =>
              (In(SrtExistenceViolation(arg.index, arg.doc_id), ret.errors)
                  <=> ~NamesFile(arg.video["srt_path"]))

\* what the returned list holds instead: the existence violation only for a
\* value that passed the suffix check
C11_ExistenceAfterSuffix ==
    (pc = "return" /\ ~ret.raised /\ Present(arg.video, "srt_path")) =>
        /\ In(SrtSuffixViolation(arg.index, arg.doc_id), ret.errors)
              <=> ~(/\ IsStr(arg.video["srt_path"])
                    /\ EndsWith(arg.video["srt_path"].s, dot_srt))
        /\ In(SrtExistenceViolation(arg.index, arg.doc_id), ret.errors)
              <=> (/\ IsStr(arg.video["srt_path"])
                   /\ EndsWith(arg.video["srt_path"].s, dot_srt)
                   /\ ~NamesFile(arg.video["srt_path"]))

TsField(index) == Prefix(index) \o ".pdf_page_video_ts_path"

\* the violations the claim allows on pdf_page_video_ts_path: for a value
\* that names no file the existence violation alone, for a file that fails
\* the page-timestamp check the structure violation alone, else none
TsExpected(value, index, doc_id) ==
    IF ~NamesFile(value)
    THEN << Err(TsField(index), Msg("file does not exist"), doc_id) >>
    ELSE IF ~validate_pdf_timestamp_json_structure(ReadFile(Parts(value.s)))
    THEN << Err(TsField(index), Msg("invalid JSON structure"), doc_id) >>
    ELSE << >>

\* C12: on a sub-record whose pdf_page_video_ts_path is non-null, existence
\* is checked before shape: a value that names no file gets exactly the
\* violation 'file does not exist', an existing file that fails the
\* page-timestamp check gets exactly 'invalid JSON structure', any other
\* value gets none, and the field never gets both.
C12_ExistenceBeforeShape ==
    (pc = "return" /\ Present(arg.video, "pdf_page_video_ts_path")) =>
        /\ ~ret.raised
        /\ ErrorsOn(ret.errors, TsField(arg.index))
              = TsExpected(arg.video["pdf_page_video_ts_path"], arg.index,
                           arg.doc_id)

\* C12, for the calls that return a list
C12_ExistenceBeforeShapeWhenReturned ==
    (/\ pc = "return" /\ ~ret.raised
     /\ Present(arg.video, "pdf_page_video_ts_path")) =>
        ErrorsOn(ret.errors, TsField(arg.index))
            = TsExpected(arg.video["pdf_page_video_ts_path"], arg.index,
                         arg.doc_id)

---------------------------------------------------------------------------
(* Claims about the is_gemini_processed_video rule (DocSpec).              *)

GeminiIsVideoViolation(doc) ==
    Err("is_video", Msg("must be true when is_gemini_processed_video is true"),
        DocId(doc))

GeminiPathViolation(doc) ==
    Err("path", Msg("Gemini JSON file has invalid structure"), DocId(doc))

\* what the claim asks of a returned list
GeminiRule(doc, errors) ==
    /\ In(GeminiIsVideoViolation(doc), errors)
          <=> (/\ IsTrue(Get(doc, "is_gemini_processed_video"))
               /\ ~IsTrue(Get(doc, "is_video")))
    /\ In(GeminiPathViolation(doc), errors)
          <=> (/\ IsTrue(Get(doc, "is_gemini_processed_video"))
               /\ Present(doc, "path")
               /\ NamesFile(doc["path"])
               /\ ~validate_gemini_json_structure(ReadFile(Parts(doc["path"].s))))

\* C13: for a document on which no other rule raises, the list is returned;
\* it holds (is_video, 'must be true when is_gemini_processed_video is
\* true') iff is_gemini_processed_video is exactly true and is_video is not,
\* and (path, 'Gemini JSON file has invalid structure') iff
\* is_gemini_processed_video is exactly true, path is non-null, the file
\* exists and its content fails the segmented-video-description check.
C13_GeminiProcessedRule ==
    (/\ pc = "return"
     /\ ~RaisesAtPathSuffix(arg) /\ ~RaisesAtIsVideo(arg) /\ ~RaisesInVideos(arg)) =>
        /\ ~ret.raised
        /\ GeminiRule(arg, ret.errors)

\* C13, for the calls that return a list
C13_GeminiProcessedRuleWhenReturned ==
    (pc = "return" /\ ~ret.raised) => GeminiRule(arg, ret.errors)

---------------------------------------------------------------------------
(* validate_pdf_timestamp_json_structure on its own: the file is the       *)
(* input.                                                                  *)

TimestampKeys == {"start_timestamp", "end_timestamp"}
ItemKeys == {"page_number", "timestamps"}

\* the entries of a timestamps list: a mapping with both keys, one without
\* end_timestamp, and a string that names both keys
EntryInputs ==
    {DictOfKeys(TimestampKeys), DictOfKeys({"start_timestamp"}),
     JText(TimestampKeys)}

\* the values under "timestamps": lists of entries, a mapping, null
TimestampsInputs ==
    {JArr(xs) : xs \in SeqUpTo(EntryInputs, MaxEntries)}
        \cup {DictOfKeys(TimestampKeys), JNone}

\* the elements of the root: mappings with both keys, mappings without one
\* of them, a list that holds both key names, and a number
ItemInputs ==
    {JDict([k \in ItemKeys |-> IF k = "timestamps" THEN ts ELSE JNum]) :
        ts \in TimestampsInputs}
        \cup {DictOfKeys({"page_number"}),
              JDict([k \in {"timestamps"} |->
                        JArr(<< DictOfKeys({"end_timestamp"}) >>)]),
              JDict([k \in ItemKeys |->
                        IF k = "timestamps"
                        THEN JArr(<< DictOfKeys({"end_timestamp"}) >>)
                        ELSE JNum]),
              ListOfKeys(ItemKeys), JNum}

TimestampFileInputs ==
    {NoFile, NotJson}
        \cup {JsonFile(JArr(xs)) : xs \in SeqUpTo(ItemInputs, MaxItems)}
        \cup {JsonFile(v) : v \in {DictOfKeys(ItemKeys), JText(ItemKeys), JNum,
                                   JNone}}

TimestampInit ==
    /\ pc = "call"
    /\ arg \in TimestampFileInputs
    /\ ret = FALSE
    /\ case_insensitive = FALSE
    /\ NoMetadata
    /\ MainIdle

TimestampCheck ==
    /\ pc = "call"
    /\ ret' = validate_pdf_timestamp_json_structure(arg)
    /\ pc' = "return"
    /\ UNCHANGED << arg, env_vars, main_vars >>

TimestampNext == TimestampCheck

TimestampSpec == TimestampInit /\ [][TimestampNext]_vars

\* the shape the page-timestamp check asks of a file
TimestampShape(file) ==
    /\ file.readable
    /\ file.parses
    /\ file.json.t = "list"
    /\ \A item \in Range(file.json.items) :
          /\ item.t = "dict"
          /\ ItemKeys \subseteq DOMAIN item.fields
          /\ item.fields["timestamps"].t = "list"
          /\ \A entry \in Range(item.fields["timestamps"].items) :
                /\ entry.t = "dict"
                /\ TimestampKeys \subseteq DOMAIN entry.fields

\* C14: the page-timestamp check answers Valid exactly for a file that
\* parses as JSON, whose root is a sequence, whose every element is a
\* mapping with 'page_number' and 'timestamps', whose every 'timestamps'
\* value is a sequence, and whose every entry is a mapping with
\* 'start_timestamp' and 'end_timestamp'; it answers Invalid for every
\* other file and never raises.
C14_TimestampValidIffShape ==
    pc = "return" =>
        /\ ret \in BOOLEAN
        /\ ret = TRUE <=> TimestampShape(arg)

\* a Valid payload of two elements has been checked, one with an empty
\* timestamps list and one with two entries
C14_Witness ==
    /\ pc = "return"
    /\ ret = TRUE
    /\ arg.parses
    /\ arg.json.t = "list"
    /\ Len(arg.json.items) = 2
    /\ \E i, j \in 1..2 :
          /\ arg.json.items[i].fields["timestamps"].items = << >>
          /\ Len(arg.json.items[j].fields["timestamps"].items) = 2

---------------------------------------------------------------------------
(* validate_document_fields called twice on one document against the same *)
(* content tree, as the document loop of validate_json_file calls it for   *)
(* two equal documents (lines 579-582): field_errors collects the lists.   *)

\* the keys next to associated_video_lectures in the documents under check
OrderKeys ==
    {"week", "model", "path", "is_video", "title",
     "is_gemini_processed_video"}

OrderInit ==
    /\ pc = "call"
    /\ \E K \in {S \in SUBSET OrderKeys : Cardinality(S) < MaxKeys} :
          arg \in DocInputs(K \cup {"associated_video_lectures"})
    /\ ret = Returned(<< >>)
    /\ case_insensitive \in BOOLEAN
    /\ NoMetadata
    /\ MainIdle

\* lines 581-582
Evaluate ==
    /\ ret' = validate_document_fields(arg)
    /\ field_errors' = field_errors \o ret'.errors
    /\ UNCHANGED << arg, env_vars, file_idx, doc_idx, paths_to_check, path_idx,
                    valid_paths, invalid_paths, acc_vars, summary_vars,
                    validating, error_printed, unreferenced_printed,
                    exit_status >>

OrderFirst ==
    /\ pc = "call"
    /\ pc' = "return"
    /\ Evaluate

\* the second call; there is none after a call that raised (lines 602-604)
OrderSecond ==
    /\ pc = "return"
    /\ ~ret.raised
    /\ pc' = "again"
    /\ Evaluate

OrderNext == OrderFirst \/ OrderSecond

OrderSpec == OrderInit /\ [][OrderNext]_vars

\* the sub-records of the document under check, by index
SubRecordIndexes(doc) ==
    IF Present(doc, "associated_video_lectures")
          /\ doc["associated_video_lectures"].t = "list"
    THEN 0..(Len(doc["associated_video_lectures"].l) - 1)
    ELSE {}

\* the field names of the violations that belong to sub-record i
SubRecordFields(i) == {Prefix(i)} \cup {Prefix(i) \o "." \o k : k \in VideoKeys}

\* where a violation belongs: 0 for a top-level field, 1 for
\* associated_video_lectures itself, 2 + i for sub-record i
Rank(doc, e) ==
    IF \E i \in SubRecordIndexes(doc) : e[1] \in SubRecordFields(i)
    THEN 2 + (CHOOSE i \in SubRecordIndexes(doc) : e[1] \in SubRecordFields(i))
    ELSE IF e[1] = "associated_video_lectures" THEN 1
    ELSE 0

=============================================================================
